---- MODULE Spec2Model ----
(***************************************************************************)
(* Model of the C-Course scripts:                                          *)
(*   Resources/Code_Examples/sorting_algorithms_manim.py  (SortingAlgorithm)*)
(*   Week1/sorting_algorithms_manim.py     (SortingAlgorithmsForFinance)   *)
(*   Week3/threading_visualization.py      (main)                          *)
(*   Resources/Code_Examples/sorting_algorithm_comparison_graph.py         *)
(* Python lists are 0-based; a list is a TLA+ sequence whose element k+1   *)
(* is the Python element k.  All index arguments are Python indices.       *)
(***************************************************************************)
EXTENDS Integers, Sequences, FiniteSets, TLC

VARIABLES
    pc,              \* position of the running script / call
    values,          \* the list `values` of the current scene or call
    bars,            \* the VGroup `bars` of the current scene or call
    sorted_values,   \* merge_sort_scene / intro_sort_scene: sorted_values
    temp_bars,       \* merge_sort_scene: temp_bars = bars.copy()
    low, high,       \* index arguments of a direct call
    orig,            \* contents of the list when the call / scene started
    loop,            \* locals of the running call: range, i, j, k, pivot_value
    stack,           \* pending calls of the running sort, innermost first
    mobjects,        \* SortingAlgorithm: the mobjects on the scene, by name
    values2,         \* the list `values` of a second execution of the script
    data_quicksort, data_mergesort, data_introsort,   \* Week1 datasets
    np_seed,         \* state of NumPy's global generator (np.random.seed)
    fs,              \* file system: path -> "absent" | "dir" | "file"
    cwd,             \* current working directory of the process
    stdout,          \* lines printed so far
    written          \* paths written by this execution, in order

vars == <<pc, values, bars, sorted_values, temp_bars, low, high, orig, loop,
          stack, mobjects, values2,
          data_quicksort, data_mergesort, data_introsort, np_seed,
          fs, cwd, stdout, written>>

sceneVars == <<values, bars, sorted_values, temp_bars>>
callVars  == <<low, high, orig, loop, stack>>
week1Vars == <<data_quicksort, data_mergesort, data_introsort, np_seed>>
fileVars  == <<fs, cwd, stdout, written>>

----------------------------------------------------------------------------
(* Bounds of the model *)
MaxLen == 4            \* longest list handed to a direct call
MaxVal == 3            \* values of those lists are 1..MaxVal
ShuffleDraws == 2      \* random.shuffle: iterations explored with every draw
Run2Draws == 1         \* the same, for the second execution of a script

(* Program constants *)
DataSize == 15         \* list(range(1, 16)) / data_size = 15
RecursionCap == 10     \* if high - low < 10
W1RecursionCap == 3    \* if right - (i+1) < 3 and i+1 - left < 3
NumpySeed == 42        \* np.random.seed(42)

----------------------------------------------------------------------------
(* Python list helpers *)
At(s, k) == s[k + 1]

\* s[i], s[j] = s[j], s[i]
Swap(s, i, j) == [s EXCEPT ![i + 1] = s[j + 1], ![j + 1] = s[i + 1]]

\* s[a:b]
Slice(s, a, b) == SubSeq(s, a + 1, b)

\* list(range(1, n + 1))
RangeList(n) == [k \in 1..n |-> k]

RECURSIVE InsertSorted(_, _)
InsertSorted(s, v) ==
    IF s = <<>> THEN <<v>>
    ELSE IF v < Head(s) THEN <<v>> \o s
    ELSE <<Head(s)>> \o InsertSorted(Tail(s), v)

\* the builtin sorted(s)
RECURSIVE sorted(_)
sorted(s) == IF s = <<>> THEN <<>>
             ELSE InsertSorted(sorted(SubSeq(s, 1, Len(s) - 1)), s[Len(s)])

\* random.shuffle(x): for i in reversed(range(1, len(x))): j = randbelow(i + 1);
\* x[i], x[j] = x[j], x[i].  The generator is seeded from the operating
\* system, so j is a free choice; only the first `draws` iterations are
\* explored with every j, the remaining ones with j = i.
RECURSIVE shuffle_from(_, _, _)
shuffle_from(x, i, draws) ==
    IF i < 1 \/ draws = 0 THEN {x}
    ELSE UNION { shuffle_from(Swap(x, i, j), i - 1, draws - 1) : j \in 0..i }

shuffle(x, draws) == shuffle_from(x, Len(x) - 1, draws)

----------------------------------------------------------------------------
(* Bars: a bar is the Rectangle created for one value *)
Bar(id, val, color) == [id |-> id, val |-> val, color |-> color]

\* create_bars(values, color)
create_bars(vals, color) == [k \in 1..Len(vals) |-> Bar(k - 1, vals[k], color)]

\* bars[k].animate.set_color(c)
set_color(bs, k, c) == [bs EXCEPT ![k + 1].color = c]

\* VGroup(bars[a..b]).animate.set_color(c)
RECURSIVE set_color_range(_, _, _, _)
set_color_range(bs, a, b, c) ==
    IF a > b THEN bs ELSE set_color_range(set_color(bs, a, c), a + 1, b, c)

TransformColorOnly(bs, k, val, c) == set_color(bs, k, c)

\* Transform(bars[k], Rectangle(height = val * 0.15, fill_color = c))
Transform(bs, k, val, c) == [bs EXCEPT ![k + 1].val = val, ![k + 1].color = c]

\* for i in range(a, b + 1): Transform(bars[i], new bar of height vals[i])
RECURSIVE TransformRange(_, _, _, _, _)
TransformRange(bs, vals, a, b, c) ==
    IF a > b THEN bs
    ELSE TransformRange(Transform(bs, a, At(vals, a), c), vals, a + 1, b, c)

Heights(bs) == [k \in 1..Len(bs) |-> bs[k].val]

----------------------------------------------------------------------------
(* Resources/Code_Examples/sorting_algorithms_manim.py *)

\* the partition loop `for j in range(low, high)` from index j on;
\* st = [values, bars, i]
swap_bars_never(bs, i, j) == bs

\* if i != j: bars[i], bars[j] = bars[j], bars[i]
swap_bars(bs, i, j) == IF i # j THEN Swap(bs, i, j) ELSE bs

RECURSIVE partition_loop(_, _, _, _)
partition_loop(st, j, hi, pivot_value) ==
    IF j >= hi THEN st
    ELSE IF At(st.values, j) <= pivot_value
         THEN LET i == st.i + 1
                  v == Swap(st.values, i, j)
                  b == swap_bars(st.bars, i, j)
              IN partition_loop([values |-> v, bars |-> b, i |-> i],
                                j + 1, hi, pivot_value)
         ELSE partition_loop(st, j + 1, hi, pivot_value)

mark_done_skipped(bs, p, color) == bs

\* self.play(bars[i+1].animate.set_color(GREEN))
mark_done(bs, p, color) == set_color(bs, p, color)

place_pivot_skipped(st, hi) ==
    [st EXCEPT !.bars = mark_done(st.bars, st.i + 1, "GREEN")]

\* the statements after the loop: the pivot is swapped to i+1, its bar
\* follows it and is coloured GREEN
place_pivot(st, hi) ==
    [values |-> Swap(st.values, st.i + 1, hi),
     bars   |-> mark_done(swap_bars(st.bars, st.i + 1, hi), st.i + 1, "GREEN"),
     i      |-> st.i]

\* one partition pass of quick_sort_animation: highlight, loop, pivot swap,
\* colouring of the placed pivot; result [values, bars, i]
partition_pass(bs, vals, lo, hi) ==
    LET pivot_value == At(vals, hi)
        b0 == set_color(bs, hi, "YELLOW")
        p  == partition_loop([values |-> vals, bars |-> b0, i |-> lo - 1],
                             lo, hi, pivot_value)
    IN place_pivot(p, hi)

recurse_cond_small(lo, hi) == hi - lo < 2

\* if high - low < 10
recurse_cond(lo, hi) == hi - lo < RecursionCap

\* The statements of a call run one after the other: a set construction
\* over a singleton, { next(x) : x \in {first} }, completes `first` before
\* `next` starts, and TheResult takes the value out again.
TheResult(singleton) == CHOOSE r \in singleton : TRUE

RECURSIVE quick_sort_animation(_, _, _, _)
quick_sort_animation(bs, vals, lo, hi) ==
    IF lo < hi
    THEN TheResult(
           { IF recurse_cond(lo, hi)
             THEN TheResult(
                    { quick_sort_animation(l.bars, l.values, p.i + 2, hi)
                      : l \in {quick_sort_animation(p.bars, p.values, lo, p.i)} })
             ELSE [values |-> p.values, bars |-> p.bars]
             : p \in {partition_pass(bs, vals, lo, hi)} })
    ELSE [values |-> vals, bars |-> bs]

\* Elements that compare equal can still be told apart (1, 1.0 and True
\* are equal keys in Python).  An element is the number Element(key, tag):
\* comparisons see its key only, the tag says which object it is.  The
\* numbers 0..KeyBase-1 are the plain integers of the scenes, tag 0.
KeyBase == DataSize + 1

Element(key, tag) == key + KeyBase * tag

Key(e) == e % KeyBase

Tag(e) == e \div KeyBase

take_left_reversed(L, R, i, j) == Key(At(L, i)) >= Key(At(R, j))

\* if L[i] <= R[j]
take_left(L, R, i, j) == Key(At(L, i)) <= Key(At(R, j))

merge_step_ties_right(v, L, R, i, j, k) ==
    IF i < Len(L) /\ (j >= Len(R) \/ Key(At(L, i)) < Key(At(R, j)))
    THEN [values |-> [v EXCEPT ![k + 1] = At(L, i)],
          i |-> i + 1, j |-> j, k |-> k + 1]
    ELSE [values |-> [v EXCEPT ![k + 1] = At(R, j)],
          i |-> i, j |-> j + 1, k |-> k + 1]

\* one iteration of the while loops of merge_animation: of the first one
\* while both halves have elements left, then of the one that copies the
\* rest; result [values, i, j, k]
merge_step(v, L, R, i, j, k) ==
    IF i < Len(L) /\ (j >= Len(R) \/ take_left(L, R, i, j))
    THEN [values |-> [v EXCEPT ![k + 1] = At(L, i)],
          i |-> i + 1, j |-> j, k |-> k + 1]
    ELSE [values |-> [v EXCEPT ![k + 1] = At(R, j)],
          i |-> i, j |-> j + 1, k |-> k + 1]

\* the three while loops of merge_animation; result [values, k]
RECURSIVE merge_loops(_, _, _, _, _, _)
merge_loops(v, L, R, i, j, k) ==
    IF i < Len(L) \/ j < Len(R)
    THEN TheResult({ merge_loops(s.values, L, R, s.i, s.j, s.k)
                     : s \in {merge_step(v, L, R, i, j, k)} })
    ELSE [values |-> v, k |-> k]

merge_locals_k_zero(vals, start, mid, end) ==
    [L |-> Slice(vals, start, mid + 1), R |-> Slice(vals, mid + 1, end + 1),
     i |-> 0, j |-> 0, k |-> 0]

\* L = values[start:mid + 1]; R = values[mid + 1:end + 1]; i = j = 0;
\* k = start
merge_locals(vals, start, mid, end) ==
    [L |-> Slice(vals, start, mid + 1), R |-> Slice(vals, mid + 1, end + 1),
     i |-> 0, j |-> 0, k |-> start]

\* for i in range(start, end + 1): Transform(bars[i], new_bar), BLUE
update_bars(bs, vals, start, end) == TransformRange(bs, vals, start, end, "BLUE")

merge_animation(bs, vals, start, mid, end) ==
    LET l == merge_locals(vals, start, mid, end)
        m == merge_loops(vals, l.L, l.R, l.i, l.j, l.k)
    IN [values |-> m.values,
        bars |-> update_bars(bs, m.values, start, end)]

midpoint_rounded_up(start, end) == (start + end + 1) \div 2

\* mid = (start + end) // 2
midpoint(start, end) == (start + end) \div 2

RECURSIVE merge_sort_animation(_, _, _, _)

\* the statements of merge_sort_animation after the first recursive call
merge_sort_rest(l, start, mid, end) ==
    TheResult(
      { [values |-> m.values,
         bars |-> set_color_range(m.bars, start, end, "GREEN")]
        : m \in { merge_animation(r.bars, r.values, start, mid, end)
                  : r \in {merge_sort_animation(l.bars, l.values, mid + 1, end)} } })

merge_sort_animation(bs, vals, start, end) ==
    IF start < end
    THEN LET mid == midpoint(start, end)
         IN TheResult(
              { merge_sort_rest(l, start, mid, end)
                : l \in { merge_sort_animation(b0, vals, start, mid)
                          : b0 \in {set_color_range(bs, start, end, "YELLOW")} } })
    ELSE [values |-> vals, bars |-> bs]

----------------------------------------------------------------------------
(* Week1/sorting_algorithms_manim.py *)

\* the partition loop of visualize_quicksort.quick_sort_animation from index
\* j on; a bar swap is framed by GREEN and RED colourings of both bars
RECURSIVE w1_partition_loop(_, _, _, _)
w1_partition_loop(st, j, right, pivot_value) ==
    IF j >= right THEN st
    ELSE IF At(st.arr, j) <= pivot_value
         THEN LET i == st.i + 1
                  a == Swap(st.arr, i, j)
                  b == IF i # j
                       THEN set_color(set_color(Swap(st.bars, i, j), i, "RED"),
                                      j, "RED")
                       ELSE st.bars
              IN w1_partition_loop([arr |-> a, bars |-> b, i |-> i],
                                   j + 1, right, pivot_value)
         ELSE w1_partition_loop(st, j + 1, right, pivot_value)

w1_place_pivot_overwrite(arr, i, right) == [arr EXCEPT ![i + 2] = At(arr, right)]

\* arr[i+1], arr[right] = arr[right], arr[i+1]
w1_place_pivot(arr, i, right) == Swap(arr, i + 1, right)

\* the statements after the loop: pivot swap, the two bars BLUE, swapped,
\* RED again, then the bar at i+1 GREEN_E
w1_place(st, right) ==
    LET i  == st.i
        b1 == IF i + 1 # right
              THEN set_color(set_color(Swap(st.bars, i + 1, right), i + 1, "RED"),
                             right, "RED")
              ELSE st.bars
    IN [arr  |-> w1_place_pivot(st.arr, i, right),
        bars |-> mark_done(b1, i + 1, "GREEN_E"),
        i    |-> i]

w1_partition_pass(arr, left, right, bs) ==
    LET pivot_value == At(arr, right)
        b0 == set_color(bs, right, "YELLOW")
        p  == w1_partition_loop([arr |-> arr, bars |-> b0, i |-> left - 1],
                                left, right, pivot_value)
    IN w1_place(p, right)

w1_recurse_cond_right_only(left, right, i) == right - (i + 1) < W1RecursionCap

\* if right - (i+1) < 3 and i+1 - left < 3
w1_recurse_cond(left, right, i) ==
    right - (i + 1) < W1RecursionCap /\ (i + 1) - left < W1RecursionCap

RECURSIVE w1_quick_sort_animation(_, _, _, _)
w1_quick_sort_animation(arr, left, right, bs) ==
    IF left < right
    THEN TheResult(
           { IF w1_recurse_cond(left, right, p.i)
             THEN TheResult(
                    { w1_quick_sort_animation(l.arr, p.i + 2, right, l.bars)
                      : l \in {w1_quick_sort_animation(p.arr, left, p.i, p.bars)} })
             ELSE [arr |-> p.arr, bars |-> p.bars]
             : p \in {w1_partition_pass(arr, left, right, bs)} })
    ELSE [arr |-> arr, bars |-> bs]

----------------------------------------------------------------------------
(* Values of the variables a specification does not use *)
NoList == <<>>
NoFs == [p \in {} |-> "absent"]

IdleScene == /\ sorted_values = NoList /\ temp_bars = NoList
             /\ mobjects = {}
NoLoop == [lo |-> 0, hi |-> 0, i |-> 0, j |-> 0, k |-> 0, pivot_value |-> 0,
           mid |-> 0, L |-> <<>>, R |-> <<>>, entry |-> <<>>,
           merge_entry |-> <<>>]
IdleCall  == /\ low = 0 /\ high = 0 /\ orig = NoList
             /\ loop = NoLoop /\ stack = <<>>
IdleRun2  == values2 = NoList
IdleWeek1 == /\ data_quicksort = NoList /\ data_mergesort = NoList
             /\ data_introsort = NoList /\ np_seed = 0
IdleFiles == /\ fs = NoFs /\ cwd = "" /\ stdout = <<>> /\ written = <<>>

----------------------------------------------------------------------------
(* Direct calls of the sorting routines on arbitrary lists and ranges *)
\* short lists with repeated values, every range; and shuffled lists just
\* longer than the recursion cap, on the ranges at and above the cap
ShortLists == UNION {[1..n -> 1..MaxVal] : n \in 1..MaxLen}
LongLists == shuffle(RangeList(RecursionCap + 1), ShuffleDraws)

InitSort ==
    /\ pc = "call"
    /\ values \in ShortLists \cup LongLists
    /\ bars = create_bars(values, "RED")
    /\ low \in 0..(Len(values) - 1)
    /\ high \in low..(Len(values) - 1)
    /\ Len(values) > MaxLen => high - low >= RecursionCap - 1
    /\ orig = values
    /\ loop = NoLoop /\ stack = <<>>
    /\ IdleScene /\ IdleRun2 /\ IdleWeek1 /\ IdleFiles

\* self.quick_sort_animation(bars, values, low, high)
CallQuickSort ==
    /\ pc = "call"
    /\ LET r == quick_sort_animation(bars, values, low, high)
       IN /\ values' = r.values
          /\ bars' = r.bars
    /\ pc' = "quick_returned"
    /\ UNCHANGED <<sorted_values, temp_bars, callVars, values2, week1Vars, fileVars, mobjects>>

\* self.merge_sort_animation(bars, values, start, end)
CallMergeSort ==
    /\ pc = "call"
    /\ LET r == merge_sort_animation(bars, values, low, high)
       IN /\ values' = r.values
          /\ bars' = r.bars
    /\ pc' = "merge_returned"
    /\ UNCHANGED <<sorted_values, temp_bars, callVars, values2, week1Vars, fileVars, mobjects>>

\* the elements of vals told apart by their position
Tagged(vals) == [n \in 1..Len(vals) |-> Element(vals[n], n)]

\* self.merge_sort_animation(bars, values, start, end) on a list of
\* distinguishable elements
CallMergeSortTagged ==
    /\ pc = "call"
    /\ LET r == merge_sort_animation(create_bars(Tagged(values), "RED"),
                                     Tagged(values), low, high)
       IN /\ values' = r.values
          /\ bars' = r.bars
    /\ orig' = Tagged(values)
    /\ pc' = "merge_returned.tagged"
    /\ UNCHANGED <<sorted_values, temp_bars, low, high, loop, stack, values2,
                   week1Vars, fileVars, mobjects>>

NextSort == CallQuickSort \/ CallMergeSort \/ CallMergeSortTagged

SpecSort == InitSort /\ [][NextSort]_vars

----------------------------------------------------------------------------
(***************************************************************************)
(* The same calls statement by statement.  loop holds the locals of the    *)
(* running call (lo and hi are low/high, left/right or start/end), stack   *)
(* the frames of its callers, the innermost first; a frame records which   *)
(* of the two recursive calls of its body is running.                      *)
(***************************************************************************)
stepFrame == <<sorted_values, temp_bars, low, high, orig, values2, week1Vars,
               fileVars, mobjects>>

\* the locals of a call that has not run a statement yet; entry keeps the
\* contents the list has when the call is made
Call(lo, hi) == [NoLoop EXCEPT !.lo = lo, !.hi = hi, !.entry = values]

Frame(locals, at) == [locals |-> locals, at |-> at]

\* the lists of the direct calls, and the 15-element lists the scenes pass
\* with the range 0..len-1
InitSteps ==
    \/ InitSort
    \/ /\ pc = "call"
       /\ values \in ShortLists
       /\ bars = create_bars(values, "RED")
       /\ low \in 0..(Len(values) - 1)
       /\ high \in 0..(low - 1)
       /\ orig = values
       /\ loop = NoLoop /\ stack = <<>>
       /\ IdleScene /\ IdleRun2 /\ IdleWeek1 /\ IdleFiles
    \/ /\ pc = "call"
       /\ values \in shuffle(RangeList(DataSize), ShuffleDraws)
       /\ bars = create_bars(values, "RED")
       /\ low = 0
       /\ high = Len(values) - 1
       /\ orig = values
       /\ loop = NoLoop /\ stack = <<>>
       /\ IdleScene /\ IdleRun2 /\ IdleWeek1 /\ IdleFiles

\* the top-level call of one of the routines
StartCall(v) ==
    /\ pc = "call"
    /\ loop' = Call(low, high)
    /\ pc' = v \o ".call"
    /\ UNCHANGED <<values, bars, stack, stepFrame>>

\* if low < high: pivot_value = values[high]; the pivot bar turns YELLOW;
\* i = low - 1
Enter(v) ==
    /\ pc = v \o ".call"
    /\ IF loop.lo < loop.hi
       THEN /\ bars' = set_color(bars, loop.hi, "YELLOW")
            /\ loop' = [loop EXCEPT !.pivot_value = At(values, loop.hi),
                                    !.i = loop.lo - 1, !.j = loop.lo]
            /\ pc' = v \o ".loop"
       ELSE /\ pc' = v \o ".return"
            /\ UNCHANGED <<bars, loop>>
    /\ UNCHANGED <<values, stack, stepFrame>>

\* the recursion guard of the body, then the first recursive call
Recurse(v, cond) ==
    /\ pc = v \o ".placed"
    /\ IF cond
       THEN /\ stack' = <<Frame(loop, "first")>> \o stack
            /\ loop' = Call(loop.lo, loop.i)
            /\ pc' = v \o ".call"
       ELSE /\ pc' = v \o ".return"
            /\ UNCHANGED <<loop, stack>>
    /\ UNCHANGED <<values, bars, stepFrame>>

\* a call returns: to the caller's second recursive call, to the end of the
\* caller's body, or out of the top-level call
Return(v) ==
    /\ pc = v \o ".return"
    /\ IF stack = <<>>
       THEN /\ pc' = v \o ".returned"
            /\ UNCHANGED <<loop, stack>>
       ELSE IF Head(stack).at = "first"
            THEN /\ stack' = <<Frame(Head(stack).locals, "second")>> \o Tail(stack)
                 /\ loop' = Call(Head(stack).locals.i + 2, Head(stack).locals.hi)
                 /\ pc' = v \o ".call"
            ELSE /\ stack' = Tail(stack)
                 /\ loop' = Head(stack).locals
                 /\ pc' = v \o ".return"
    /\ UNCHANGED <<values, bars, stepFrame>>

(* SortingAlgorithm.quick_sort_animation *)
QsStart == StartCall("qs")

QsEnter == Enter("qs")

\* one iteration of `for j in range(low, high)`
QsLoop ==
    /\ pc = "qs.loop"
    /\ loop.j < loop.hi
    /\ LET st == partition_loop([values |-> values, bars |-> bars, i |-> loop.i],
                                loop.j, loop.j + 1, loop.pivot_value)
       IN /\ values' = st.values
          /\ bars' = st.bars
          /\ loop' = [loop EXCEPT !.i = st.i, !.j = loop.j + 1]
    /\ pc' = "qs.loop"
    /\ UNCHANGED <<stack, stepFrame>>

QsPlace ==
    /\ pc = "qs.loop"
    /\ loop.j >= loop.hi
    /\ LET st == place_pivot([values |-> values, bars |-> bars, i |-> loop.i],
                             loop.hi)
       IN /\ values' = st.values
          /\ bars' = st.bars
    /\ pc' = "qs.placed"
    /\ UNCHANGED <<loop, stack, stepFrame>>

QsRecurse == Recurse("qs", recurse_cond(loop.lo, loop.hi))

QsReturn == Return("qs")

(* the quick_sort_animation of SortingAlgorithmsForFinance.visualize_quicksort *)
W1QsStart == StartCall("w1qs")

W1QsEnter == Enter("w1qs")

W1QsLoop ==
    /\ pc = "w1qs.loop"
    /\ loop.j < loop.hi
    /\ LET st == w1_partition_loop([arr |-> values, bars |-> bars, i |-> loop.i],
                                   loop.j, loop.j + 1, loop.pivot_value)
       IN /\ values' = st.arr
          /\ bars' = st.bars
          /\ loop' = [loop EXCEPT !.i = st.i, !.j = loop.j + 1]
    /\ pc' = "w1qs.loop"
    /\ UNCHANGED <<stack, stepFrame>>

W1QsPlace ==
    /\ pc = "w1qs.loop"
    /\ loop.j >= loop.hi
    /\ LET st == w1_place([arr |-> values, bars |-> bars, i |-> loop.i], loop.hi)
       IN /\ values' = st.arr
          /\ bars' = st.bars
    /\ pc' = "w1qs.placed"
    /\ UNCHANGED <<loop, stack, stepFrame>>

W1QsRecurse == Recurse("w1qs", w1_recurse_cond(loop.lo, loop.hi, loop.i))

W1QsReturn == Return("w1qs")

(* SortingAlgorithm.merge_sort_animation and merge_animation *)
MsStart == StartCall("ms")

\* if start < end: mid; the segment turns YELLOW; the first recursive call
MsEnter ==
    /\ pc = "ms.call"
    /\ IF loop.lo < loop.hi
       THEN LET mid == midpoint(loop.lo, loop.hi)
            IN /\ bars' = set_color_range(bars, loop.lo, loop.hi, "YELLOW")
               /\ stack' = <<Frame([loop EXCEPT !.mid = mid], "first")>> \o stack
               /\ loop' = Call(loop.lo, mid)
               /\ pc' = "ms.call"
       ELSE /\ pc' = "ms.return"
            /\ UNCHANGED <<bars, loop, stack>>
    /\ UNCHANGED <<values, stepFrame>>

\* a call returns: to the caller's second recursive call, to the caller's
\* call of merge_animation, or out of the top-level call
MsReturn ==
    /\ pc = "ms.return"
    /\ IF stack = <<>>
       THEN /\ pc' = "ms.returned"
            /\ UNCHANGED <<loop, stack>>
       ELSE IF Head(stack).at = "first"
            THEN /\ stack' = <<Frame(Head(stack).locals, "second")>> \o Tail(stack)
                 /\ loop' = Call(Head(stack).locals.mid + 1, Head(stack).locals.hi)
                 /\ pc' = "ms.call"
            ELSE /\ stack' = Tail(stack)
                 /\ loop' = Head(stack).locals
                 /\ pc' = "ms.merge_animation"
    /\ UNCHANGED <<values, bars, stepFrame>>

\* merge_animation(bars, values, start, mid, end) up to the first loop
MsMergeBegin ==
    /\ pc = "ms.merge_animation"
    /\ LET l == merge_locals(values, loop.lo, loop.mid, loop.hi)
       IN loop' = [loop EXCEPT !.L = l.L, !.R = l.R, !.i = l.i, !.j = l.j,
                               !.k = l.k, !.merge_entry = values]
    /\ pc' = "ms.merge_loops"
    /\ UNCHANGED <<values, bars, stack, stepFrame>>

\* one iteration of one of the three while loops
MsMergeStep ==
    /\ pc = "ms.merge_loops"
    /\ loop.i < Len(loop.L) \/ loop.j < Len(loop.R)
    /\ LET st == merge_step(values, loop.L, loop.R, loop.i, loop.j, loop.k)
       IN /\ values' = st.values
          /\ loop' = [loop EXCEPT !.i = st.i, !.j = st.j, !.k = st.k]
    /\ pc' = "ms.merge_loops"
    /\ UNCHANGED <<bars, stack, stepFrame>>

\* the bars of the segment are rebuilt from the merged values;
\* merge_animation returns
MsUpdateBars ==
    /\ pc = "ms.merge_loops"
    /\ ~(loop.i < Len(loop.L) \/ loop.j < Len(loop.R))
    /\ bars' = update_bars(bars, values, loop.lo, loop.hi)
    /\ pc' = "ms.merged"
    /\ UNCHANGED <<values, loop, stack, stepFrame>>

\* self.play(current_bars.animate.set_color(GREEN))
MsResetColor ==
    /\ pc = "ms.merged"
    /\ bars' = set_color_range(bars, loop.lo, loop.hi, "GREEN")
    /\ pc' = "ms.return"
    /\ UNCHANGED <<values, loop, stack, stepFrame>>

NextSteps ==
    \/ QsStart \/ QsEnter \/ QsLoop \/ QsPlace \/ QsRecurse \/ QsReturn
    \/ W1QsStart \/ W1QsEnter \/ W1QsLoop \/ W1QsPlace \/ W1QsRecurse
    \/ W1QsReturn
    \/ MsStart \/ MsEnter \/ MsReturn \/ MsMergeBegin \/ MsMergeStep
    \/ MsUpdateBars \/ MsResetColor

SpecSteps == InitSteps /\ [][NextSteps]_vars

\* the interpreter runs the next statement of the running call as long as
\* there is one
\* every short list with every pair of index arguments, and the scene lists
InitFair ==
    /\ pc = "call"
    /\ \/ /\ values \in ShortLists
          /\ low \in 0..(Len(values) - 1)
          /\ high \in 0..(Len(values) - 1)
       \/ /\ values \in shuffle(RangeList(DataSize), ShuffleDraws)
          /\ low = 0
          /\ high = Len(values) - 1
    /\ bars = create_bars(values, "RED")
    /\ orig = values
    /\ loop = NoLoop /\ stack = <<>>
    /\ IdleScene /\ IdleRun2 /\ IdleWeek1 /\ IdleFiles

FairSteps == InitFair /\ [][NextSteps]_vars /\ WF_vars(NextSteps)

----------------------------------------------------------------------------
(* SortingAlgorithm.construct: the sub-scenes in program order *)
initial_values_from_zero == [k \in 1..DataSize |-> k - 1]

\* values = list(range(1, 16))
initial_values == RangeList(DataSize)

\* The manim Scene keeps the mobjects that are displayed.  self.play puts a
\* mobject it animates on the scene if it is not there yet (Write, FadeIn,
\* Create, .animate, Transform of its first argument); FadeOut takes its
\* mobject off when the animation ends.  A mobject is named by the
\* sub-scene that made it and its variable; a VGroup stands for its elements.
Mob(scene, name) == scene \o "." \o name

play(ms, animated) == ms \cup animated

FadeOut(ms, faded) == ms \ faded

InitResources ==
    /\ pc = "intro_scene"
    /\ values = NoList /\ bars = NoList
    /\ IdleScene /\ IdleCall /\ IdleRun2 /\ IdleWeek1 /\ IdleFiles

IntroSceneThenMergeSort ==
    /\ pc = "intro_scene"
    /\ pc' = "merge_sort_scene"
    /\ UNCHANGED <<sceneVars, callVars, values2, week1Vars, fileVars, mobjects>>

\* Write(title); FadeIn(subtitle); FadeOut(title), FadeOut(subtitle)
IntroScene ==
    /\ pc = "intro_scene"
    /\ pc' = "quick_sort_scene"
    /\ LET shown == {Mob("intro_scene", "title"), Mob("intro_scene", "subtitle")}
       IN mobjects' = FadeOut(play(mobjects, shown), shown)
    /\ UNCHANGED <<sceneVars, callVars, values2, week1Vars, fileVars>>

\* values = list(range(1, 16)); random.shuffle(values); bars = create_bars(..);
\* Write(title); FadeIn(bars)
SceneSetup(scene, color) ==
    /\ pc = scene
    /\ values' \in shuffle(initial_values, ShuffleDraws)
    /\ bars' = create_bars(values', color)
    /\ orig' = values'
    /\ mobjects' = play(mobjects, {Mob(scene, "title"), Mob(scene, "bars")})
    /\ pc' = scene \o ".animate"
    /\ UNCHANGED <<sorted_values, temp_bars, low, high, loop, stack, values2, week1Vars, fileVars>>

\* Write(complexity); FadeOut of the listed mobjects; the locals of a
\* sub-scene go out of scope when it returns
SceneEnd(scene, from, next, faded) ==
    /\ pc = from
    /\ pc' = next
    /\ mobjects' = FadeOut(play(mobjects, {Mob(scene, "complexity")}),
                           {Mob(scene, name) : name \in faded})
    /\ values' = NoList /\ bars' = NoList
    /\ sorted_values' = NoList /\ temp_bars' = NoList
    /\ orig' = NoList
    /\ UNCHANGED <<low, high, loop, stack, values2, week1Vars, fileVars>>

QuickSortSceneSetup == SceneSetup("quick_sort_scene", "RED")

\* self.quick_sort_animation(bars, values, 0, len(values) - 1)
QuickSortSceneAnimate ==
    /\ pc = "quick_sort_scene.animate"
    /\ LET r == quick_sort_animation(bars, values, 0, Len(values) - 1)
       IN /\ values' = r.values
          /\ bars' = r.bars
    /\ mobjects' = play(mobjects, {Mob("quick_sort_scene", "bars")})
    /\ pc' = "quick_sort_scene.returned"
    /\ UNCHANGED <<sorted_values, temp_bars, callVars, values2, week1Vars, fileVars>>

\* complexity caption, wait, FadeOut
QuickSortSceneEnd ==
    SceneEnd("quick_sort_scene", "quick_sort_scene.returned", "merge_sort_scene",
             {"bars", "title", "complexity"})

MergeSortSceneSetup == SceneSetup("merge_sort_scene", "GREEN")

MergeSortSceneAnimateAliased ==
    /\ pc = "merge_sort_scene.animate"
    /\ LET r == merge_sort_animation(bars, values, 0, Len(values) - 1)
       IN /\ sorted_values' = r.values
          /\ values' = r.values
          /\ temp_bars' = r.bars
    /\ mobjects' = IF 0 < Len(values) - 1
                   THEN play(mobjects, {Mob("merge_sort_scene", "temp_bars")})
                   ELSE mobjects
    /\ pc' = "merge_sort_scene.transform"
    /\ UNCHANGED <<bars, callVars, values2, week1Vars, fileVars>>

\* sorted_values = values.copy(); temp_bars = bars.copy();
\* self.merge_sort_animation(temp_bars, sorted_values, 0, len(values) - 1)
MergeSortSceneAnimate ==
    /\ pc = "merge_sort_scene.animate"
    /\ LET r == merge_sort_animation(bars, values, 0, Len(values) - 1)
       IN /\ sorted_values' = r.values
          /\ temp_bars' = r.bars
    /\ mobjects' = IF 0 < Len(values) - 1
                   THEN play(mobjects, {Mob("merge_sort_scene", "temp_bars")})
                   ELSE mobjects
    /\ pc' = "merge_sort_scene.transform"
    /\ UNCHANGED <<values, bars, callVars, values2, week1Vars, fileVars>>

\* for i, val in enumerate(sorted_values): Transform(bars[i], new_bar)
TransformLoop(from, color) ==
    /\ pc = from
    /\ bars' = TransformRange(bars, sorted_values, 0, Len(sorted_values) - 1, color)
    /\ UNCHANGED <<values, sorted_values, temp_bars, callVars, values2,
                   week1Vars, fileVars, mobjects>>

MergeSortSceneTransform ==
    /\ TransformLoop("merge_sort_scene.transform", "GREEN")
    /\ pc' = "merge_sort_scene.transformed"

\* self.play(FadeOut(bars), FadeOut(title), FadeOut(complexity))
MergeSortSceneEnd ==
    SceneEnd("merge_sort_scene", "merge_sort_scene.transformed", "intro_sort_scene",
             {"bars", "title", "complexity"})

IntroSortSceneSetup == SceneSetup("intro_sort_scene", "YELLOW")

\* explanation text; sorted_values = sorted(values)
IntroSortSceneSort ==
    /\ pc = "intro_sort_scene.animate"
    /\ sorted_values' = sorted(values)
    /\ mobjects' = play(mobjects, {Mob("intro_sort_scene", "explanation")})
    /\ pc' = "intro_sort_scene.transform"
    /\ UNCHANGED <<values, bars, temp_bars, callVars, values2, week1Vars, fileVars>>

IntroSortSceneTransform ==
    /\ TransformLoop("intro_sort_scene.transform", "YELLOW")
    /\ pc' = "intro_sort_scene.transformed"

IntroSortSceneEnd ==
    SceneEnd("intro_sort_scene", "intro_sort_scene.transformed",
             "performance_comparison_scene",
             {"bars", "title", "explanation", "complexity"})

\* title, axes, labels, legend, graphs, highlight and annotations are shown
\* and all faded out by the last self.play
PerformanceComparisonScene ==
    /\ pc = "performance_comparison_scene"
    /\ pc' = "conclusion_scene"
    /\ LET shown == {Mob("performance_comparison_scene", name) :
                       name \in {"title", "axes", "x_label", "y_label", "legend",
                                 "quicksort_graph", "mergesort_graph",
                                 "stdsort_graph", "highlight", "highlight_text",
                                 "annotation1", "annotation2"}}
       IN mobjects' = FadeOut(play(mobjects, shown), shown)
    /\ UNCHANGED <<sceneVars, callVars, values2, week1Vars, fileVars>>

\* Write(title); Write(points); Write(final_message); FadeOut of the three
ConclusionScene ==
    /\ pc = "conclusion_scene"
    /\ pc' = "constructed"
    /\ LET shown == {Mob("conclusion_scene", name) :
                       name \in {"title", "points", "final_message"}}
       IN mobjects' = FadeOut(play(mobjects, shown), shown)
    /\ UNCHANGED <<sceneVars, callVars, values2, week1Vars, fileVars>>

NextResources ==
    \/ IntroScene
    \/ QuickSortSceneSetup \/ QuickSortSceneAnimate \/ QuickSortSceneEnd
    \/ MergeSortSceneSetup \/ MergeSortSceneAnimate
    \/ MergeSortSceneTransform \/ MergeSortSceneEnd
    \/ IntroSortSceneSetup \/ IntroSortSceneSort
    \/ IntroSortSceneTransform \/ IntroSortSceneEnd
    \/ PerformanceComparisonScene \/ ConclusionScene

SpecResources == InitResources /\ [][NextResources]_vars

----------------------------------------------------------------------------
(* SortingAlgorithmsForFinance.construct: the sub-scenes in program order;   *)
(* `values` is the parameter `data` of the running visualize_* method and  *)
(* `orig` its contents when the method was called                          *)
InitWeek1 ==
    /\ pc = "w1.intro_scene"
    /\ values = NoList /\ bars = NoList
    /\ IdleScene /\ IdleCall /\ IdleRun2 /\ IdleWeek1 /\ IdleFiles

W1Step(from, to) ==
    /\ pc = from
    /\ pc' = to
    /\ UNCHANGED <<sceneVars, callVars, values2, week1Vars, fileVars, mobjects>>

W1IntroScene == W1Step("w1.intro_scene", "w1.algorithm_comparison_scene")

\* np.random.seed(42); data_quicksort = list(range(1, data_size + 1));
\* random.shuffle(data_quicksort); the two copies
AlgorithmComparisonSetup ==
    /\ pc = "w1.algorithm_comparison_scene"
    /\ np_seed' = NumpySeed
    /\ data_quicksort' \in shuffle(initial_values, ShuffleDraws)
    /\ data_mergesort' = data_quicksort'
    /\ data_introsort' = data_quicksort'
    /\ pc' = "w1.visualize_quicksort"
    /\ UNCHANGED <<sceneVars, callVars, values2, fileVars, mobjects>>

VisualizeQuicksortAnimateAliased ==
    /\ pc = "w1.visualize_quicksort"
    /\ orig' = data_quicksort
    /\ LET r == w1_quick_sort_animation(data_quicksort, 0,
                                         Len(data_quicksort) - 1,
                                         create_bars(data_quicksort, "RED"))
       IN /\ data_quicksort' = r.arr
          /\ data_mergesort' = r.arr
          /\ data_introsort' = r.arr
          /\ values' = r.arr
          /\ bars' = r.bars
    /\ pc' = "w1.visualize_quicksort.returned"
    /\ UNCHANGED <<sorted_values, temp_bars, low, high, loop, stack, values2,
                   np_seed, fileVars, mobjects>>

\* bars = create_bars(data); quick_sort_animation(data, 0, len(data) - 1, ..)
VisualizeQuicksortAnimate ==
    /\ pc = "w1.visualize_quicksort"
    /\ orig' = data_quicksort
    /\ LET r == w1_quick_sort_animation(data_quicksort, 0,
                                         Len(data_quicksort) - 1,
                                         create_bars(data_quicksort, "RED"))
       IN /\ data_quicksort' = r.arr
          /\ values' = r.arr
          /\ bars' = r.bars
    /\ pc' = "w1.visualize_quicksort.returned"
    /\ UNCHANGED <<sorted_values, temp_bars, low, high, loop, stack, values2, data_mergesort,
                   data_introsort, np_seed, fileVars, mobjects>>

\* sorted_bars = create_bars(sorted(data), ..); Transform(bars, sorted_bars)
ShowSorted(from, to, color) ==
    /\ pc = from
    /\ sorted_values' = sorted(values)
    /\ bars' = TransformRange(bars, sorted_values', 0, Len(values) - 1, color)
    /\ pc' = to
    /\ UNCHANGED <<values, temp_bars, callVars, values2, week1Vars, fileVars, mobjects>>

VisualizeQuicksortShow ==
    ShowSorted("w1.visualize_quicksort.returned", "w1.visualize_quicksort.shown",
               "GREEN_E")

\* FadeOut(bars): the method returns
VisualizeEnd(from, to) ==
    /\ pc = from
    /\ pc' = to
    /\ values' = NoList /\ bars' = NoList /\ sorted_values' = NoList
    /\ orig' = NoList
    /\ UNCHANGED <<temp_bars, low, high, loop, stack, values2, week1Vars, fileVars, mobjects>>

VisualizeQuicksortEnd ==
    VisualizeEnd("w1.visualize_quicksort.shown", "w1.visualize_mergesort")

\* bars = create_bars(data, color) at the start of visualize_mergesort /
\* visualize_introsort
VisualizeStart(from, to, data, color) ==
    /\ pc = from
    /\ values' = data
    /\ orig' = data
    /\ bars' = create_bars(data, color)
    /\ pc' = to
    /\ UNCHANGED <<sorted_values, temp_bars, low, high, loop, stack, values2, week1Vars, fileVars, mobjects>>

VisualizeMergesortStart ==
    VisualizeStart("w1.visualize_mergesort", "w1.visualize_mergesort.dividers",
                   data_mergesort, "GREEN")

VisualizeMergesortShow ==
    ShowSorted("w1.visualize_mergesort.dividers", "w1.visualize_mergesort.shown",
               "GREEN_E")

VisualizeMergesortEnd ==
    VisualizeEnd("w1.visualize_mergesort.shown", "w1.visualize_introsort")

VisualizeIntrosortStart ==
    VisualizeStart("w1.visualize_introsort", "w1.visualize_introsort.switching",
                   data_introsort, "YELLOW")

VisualizeIntrosortShow ==
    ShowSorted("w1.visualize_introsort.switching", "w1.visualize_introsort.shown",
               "YELLOW_E")

VisualizeIntrosortEnd ==
    VisualizeEnd("w1.visualize_introsort.shown", "w1.std_sort_internals_scene")

StdSortInternalsScene == W1Step("w1.std_sort_internals_scene", "w1.financial_data_scene")
FinancialDataScene == W1Step("w1.financial_data_scene", "w1.conclusion_scene")
W1ConclusionScene == W1Step("w1.conclusion_scene", "w1.constructed")

NextWeek1 ==
    \/ W1IntroScene \/ AlgorithmComparisonSetup
    \/ VisualizeQuicksortAnimate \/ VisualizeQuicksortShow \/ VisualizeQuicksortEnd
    \/ VisualizeMergesortStart \/ VisualizeMergesortShow \/ VisualizeMergesortEnd
    \/ VisualizeIntrosortStart \/ VisualizeIntrosortShow \/ VisualizeIntrosortEnd
    \/ StdSortInternalsScene \/ FinancialDataScene \/ W1ConclusionScene

SpecWeek1 == InitWeek1 /\ [][NextWeek1]_vars

(***************************************************************************)
(* Both scene classes: one run of SortingAlgorithm.construct or of         *)
(* SortingAlgorithmsForFinance.construct.                                  *)
(***************************************************************************)
InitConstruct == InitResources \/ InitWeek1

NextConstruct == NextResources \/ NextWeek1

SpecConstruct == InitConstruct /\ [][NextConstruct]_vars

----------------------------------------------------------------------------
(* The two file-writing scripts.  A path is the tuple of its components,   *)
(* relative to the directory the script is started in; the file system     *)
(* maps the existing paths to "dir" or "file".                             *)
Kind(f, p) == IF p \in DOMAIN f THEN f[p] ELSE "absent"

PutEntry(f, p, kind) == [q \in DOMAIN f \cup {p} |-> IF q = p THEN kind ELSE f[q]]

\* os.makedirs(path, exist_ok=True) from the n-th component on: the outcomes
\* [fs, raised]; creating a missing directory may fail, a component that is
\* a file always fails
RECURSIVE makedirs_from(_, _, _)
makedirs_from(f, path, n) ==
    IF n > Len(path) THEN {[fs |-> f, raised |-> FALSE]}
    ELSE LET p == SubSeq(path, 1, n)
         IN IF Kind(f, p) = "dir" THEN makedirs_from(f, path, n + 1)
            ELSE IF Kind(f, p) = "file" THEN {[fs |-> f, raised |-> TRUE]}
            ELSE {[fs |-> f, raised |-> TRUE]}
                 \cup makedirs_from(PutEntry(f, p, "dir"), path, n + 1)

makedirs(f, path) == makedirs_from(f, path, 1)

\* every file system in which `dir` and the files `names` in it may or may
\* not exist already
RECURSIVE InitialFs(_, _, _)
InitialFs(dir, n, names) ==
    IF n > Len(dir)
    THEN { [p \in {SubSeq(dir, 1, k) : k \in 1..Len(dir)}
                  \cup {dir \o <<x>> : x \in present} |->
               IF Len(p) <= Len(dir) THEN "dir" ELSE "file"]
           : present \in SUBSET names }
    ELSE { [p \in {SubSeq(dir, 1, k) : k \in 1..(n - 1)} |-> "dir"] }
         \cup { [p \in {SubSeq(dir, 1, k) : k \in 1..n} |->
                    IF Len(p) < n THEN "dir" ELSE "file"] }
         \cup InitialFs(dir, n + 1, names)

(* Week3/threading_visualization.py *)
diagrams_dir == <<"diagrams">>

\* output_file of the four create_*_diagram functions, with the suffix that
\* render(format='png') appends
output_files == <<"threading_architecture.png", "thread_synchronization.png",
                  "thread_safety_issues.png",
                  "threading_performance_comparison.png">>

saved_messages == <<"Threading architecture diagram saved as threading_architecture.png",
                    "Thread synchronization diagram saved as thread_synchronization.png",
                    "Thread safety issues diagram saved as thread_safety_issues.png",
                    "Threading performance comparison diagram saved as threading_performance_comparison.png">>

all_created_message == "All diagrams created successfully in the 'diagrams' directory."

create_pcs == <<"main.create_threading_architecture_diagram",
                "main.create_thread_synchronization_diagram",
                "main.create_thread_safety_issues_diagram",
                "main.create_performance_comparison_diagram">>

(* Resources/Code_Examples/sorting_algorithm_comparison_graph.py *)
slides_dir == <<"Resources", "Slides">>

png_path_as_pdf == <<"Resources", "Slides", "sorting_algorithm_comparison.pdf">>

png_path == <<"Resources", "Slides", "sorting_algorithm_comparison.png">>
pdf_path == <<"Resources", "Slides", "sorting_algorithm_comparison.pdf">>

progress_messages == <<"Starting script...", "Set style...", "Created data...",
                       "Created DataFrame...", "Created figure...",
                       "Created table...", "Highlighted cells...",
                       "Created bar chart...", "Created pie chart...">>

completed_message == "Graph creation completed successfully!"

InitFiles ==
    /\ \/ /\ pc = "main"
          /\ fs \in InitialFs(diagrams_dir, 1,
                              {output_files[k] : k \in 1..Len(output_files)})
       \/ /\ pc = "graph"
          /\ fs \in InitialFs(slides_dir, 1,
                              {png_path[Len(png_path)], pdf_path[Len(pdf_path)]})
    /\ cwd = <<>>
    /\ stdout = <<>>
    /\ written = <<>>
    /\ values = NoList /\ bars = NoList
    /\ IdleScene /\ IdleCall /\ IdleRun2 /\ IdleWeek1

notFileVars == <<sceneVars, callVars, values2, week1Vars, mobjects>>

continue_after_makedirs(raised, ok_pc, raised_pc) == ok_pc

\* an exception of os.makedirs is not caught: the script stops there
after_makedirs(raised, ok_pc, raised_pc) == IF raised THEN raised_pc ELSE ok_pc

\* os.makedirs('diagrams', exist_ok=True)
MainMakedirs ==
    /\ pc = "main"
    /\ \E r \in makedirs(fs, cwd \o diagrams_dir) :
          /\ fs' = r.fs
          /\ pc' = after_makedirs(r.raised, "main.chdir", "main.raised.makedirs")
    /\ UNCHANGED <<cwd, stdout, written, notFileVars>>

MainChdirSkipped ==
    /\ pc = "main.chdir"
    /\ pc' = create_pcs[1]
    /\ UNCHANGED <<cwd, fs, stdout, written, notFileVars>>

\* os.chdir('diagrams')
MainChdir ==
    /\ pc = "main.chdir"
    /\ cwd' = cwd \o diagrams_dir
    /\ pc' = create_pcs[1]
    /\ UNCHANGED <<fs, stdout, written, notFileVars>>

CreateDiagramCaught(k) ==
    /\ pc = create_pcs[k]
    /\ \/ /\ fs' = PutEntry(fs, cwd \o <<output_files[k]>>, "file")
          /\ written' = Append(written, cwd \o <<output_files[k]>>)
          /\ stdout' = Append(stdout, saved_messages[k])
       \/ UNCHANGED <<fs, written, stdout>>
    /\ pc' = IF k < Len(create_pcs) THEN create_pcs[k + 1] ELSE "main.print"
    /\ UNCHANGED <<cwd, notFileVars>>

\* the k-th create_*_diagram(): dot.render(output_file, cleanup=True) either
\* writes <output_file>.png into the working directory and the function
\* prints its message, or raises
CreateDiagram(k) ==
    /\ pc = create_pcs[k]
    /\ \/ /\ fs' = PutEntry(fs, cwd \o <<output_files[k]>>, "file")
          /\ written' = Append(written, cwd \o <<output_files[k]>>)
          /\ stdout' = Append(stdout, saved_messages[k])
          /\ pc' = IF k < Len(create_pcs) THEN create_pcs[k + 1] ELSE "main.print"
       \/ /\ pc' = "main.raised.render"
          /\ UNCHANGED <<fs, written, stdout>>
    /\ UNCHANGED <<cwd, notFileVars>>

CreateThreadingArchitectureDiagram == CreateDiagram(1)
CreateThreadSynchronizationDiagram == CreateDiagram(2)
CreateThreadSafetyIssuesDiagram == CreateDiagram(3)
CreatePerformanceComparisonDiagram == CreateDiagram(4)

\* print("\nAll diagrams created successfully in the 'diagrams' directory.")
MainPrint ==
    /\ pc = "main.print"
    /\ stdout' = Append(stdout, all_created_message)
    /\ pc' = "main.returned"
    /\ UNCHANGED <<fs, cwd, written, notFileVars>>

\* lines 9-138: the figure is built in memory, with progress messages
GraphBuildFigure ==
    /\ pc = "graph"
    /\ stdout' = stdout \o progress_messages
    /\ pc' = "graph.makedirs"
    /\ UNCHANGED <<fs, cwd, written, notFileVars>>

\* os.makedirs('Resources/Slides', exist_ok=True); print(...)
GraphMakedirs ==
    /\ pc = "graph.makedirs"
    /\ \E r \in makedirs(fs, cwd \o slides_dir) :
          /\ fs' = r.fs
          /\ pc' = after_makedirs(r.raised, "graph.savefig_png",
                                  "graph.raised.makedirs")
          /\ stdout' = IF pc' = "graph.savefig_png"
                       THEN Append(stdout, "Ensured output directory exists...")
                       ELSE stdout
    /\ UNCHANGED <<cwd, written, notFileVars>>

\* plt.savefig(path, ...); print(f"Saved ... to ...")
Savefig(from, to, path, message) ==
    /\ pc = from
    /\ \/ /\ fs' = PutEntry(fs, cwd \o path, "file")
          /\ written' = Append(written, cwd \o path)
          /\ stdout' = Append(stdout, message)
          /\ pc' = to
       \/ /\ pc' = "graph.raised.savefig"
          /\ UNCHANGED <<fs, written, stdout>>
    /\ UNCHANGED <<cwd, notFileVars>>

GraphSavePng == Savefig("graph.savefig_png", "graph.savefig_pdf", png_path, "Saved PNG")
GraphSavePdf == Savefig("graph.savefig_pdf", "graph.print", pdf_path, "Saved PDF")

\* print("Graph creation completed successfully!")
GraphPrint ==
    /\ pc = "graph.print"
    /\ stdout' = Append(stdout, completed_message)
    /\ pc' = "graph.finished"
    /\ UNCHANGED <<fs, cwd, written, notFileVars>>

NextFiles ==
    \/ MainMakedirs \/ MainChdir
    \/ CreateThreadingArchitectureDiagram \/ CreateThreadSynchronizationDiagram
    \/ CreateThreadSafetyIssuesDiagram \/ CreatePerformanceComparisonDiagram
    \/ MainPrint
    \/ GraphBuildFigure \/ GraphMakedirs \/ GraphSavePng \/ GraphSavePdf
    \/ GraphPrint

SpecFiles == InitFiles /\ [][NextFiles]_vars

----------------------------------------------------------------------------
(* Two executions of an animation script, side by side at the points where *)
(* the script shuffles: `values` (Week1: data_quicksort) belongs to the    *)
(* first execution and `values2` is the same list in the second one.       *)
InitRuns ==
    /\ pc \in {"runs.quick_sort_scene", "runs.algorithm_comparison_scene"}
    /\ values = NoList /\ bars = NoList
    /\ IdleScene /\ IdleCall /\ IdleRun2 /\ IdleWeek1 /\ IdleFiles

\* values = list(range(1, 16)); random.shuffle(values), in both executions
RunsShuffle(from, to) ==
    /\ pc = from
    /\ values' \in shuffle(initial_values, ShuffleDraws)
    /\ values2' \in shuffle(initial_values, Run2Draws)
    /\ pc' = to
    /\ UNCHANGED <<bars, sorted_values, temp_bars, callVars, week1Vars, fileVars, mobjects>>

\* the rest of the sub-scene; its locals go out of scope in both executions
RunsSceneEnd(from, to) ==
    /\ pc = from
    /\ values' = NoList
    /\ values2' = NoList
    /\ pc' = to
    /\ UNCHANGED <<bars, sorted_values, temp_bars, callVars, week1Vars, fileVars, mobjects>>

RunsQuickSortScene ==
    RunsShuffle("runs.quick_sort_scene", "runs.quick_sort_scene.shuffled")
RunsQuickSortSceneEnd ==
    RunsSceneEnd("runs.quick_sort_scene.shuffled", "runs.merge_sort_scene")
RunsMergeSortScene ==
    RunsShuffle("runs.merge_sort_scene", "runs.merge_sort_scene.shuffled")
RunsMergeSortSceneEnd ==
    RunsSceneEnd("runs.merge_sort_scene.shuffled", "runs.intro_sort_scene")
RunsIntroSortScene ==
    RunsShuffle("runs.intro_sort_scene", "runs.intro_sort_scene.shuffled")

\* np.random.seed(42); data_quicksort = list(range(1, data_size + 1));
\* random.shuffle(data_quicksort), in both executions: the seed goes to
\* NumPy's generator, the shuffle draws from the generator of `random`
RunsAlgorithmComparison ==
    /\ pc = "runs.algorithm_comparison_scene"
    /\ np_seed' = NumpySeed
    /\ data_quicksort' \in shuffle(initial_values, ShuffleDraws)
    /\ values2' \in shuffle(initial_values, Run2Draws)
    /\ data_mergesort' = data_quicksort'
    /\ data_introsort' = data_quicksort'
    /\ pc' = "runs.algorithm_comparison_scene.shuffled"
    /\ UNCHANGED <<sceneVars, callVars, fileVars, mobjects>>

NextRuns ==
    \/ RunsQuickSortScene \/ RunsQuickSortSceneEnd
    \/ RunsMergeSortScene \/ RunsMergeSortSceneEnd
    \/ RunsIntroSortScene
    \/ RunsAlgorithmComparison

SpecRuns == InitRuns /\ [][NextRuns]_vars

----------------------------------------------------------------------------
(* Predicates on lists *)
IsAscending(s, a, b) == \A k \in a..(b - 1) : At(s, k) <= At(s, k + 1)

Count(s, a, b, v) == Cardinality({k \in a..b : At(s, k) = v})

SamePermutation(s, t, a, b) ==
    \A k \in a..b : Count(s, a, b, At(s, k)) = Count(t, a, b, At(s, k))
                     /\ Count(s, a, b, At(t, k)) = Count(t, a, b, At(t, k))

----------------------------------------------------------------------------
\* C1: when merge_sort_animation(bars, values, start, end) returns,
\* values[start..end] is ascending, is a permutation of the contents the
\* range had before the call, and equals the reference sort of that range.
C1_MergeSortSorts ==
    pc = "merge_returned" =>
        /\ IsAscending(values, low, high)
        /\ SamePermutation(values, orig, low, high)
        /\ Slice(values, low, high + 1) = sorted(Slice(orig, low, high + 1))

C1_Witness ==
    /\ pc = "merge_returned"
    /\ high - low >= 2
    /\ ~IsAscending(orig, low, high)
    /\ IsAscending(values, low, high)

\* C2: when quick_sort_animation(bars, values, low, high) returns for a range
\* with high - low < 10, values[low..high] is ascending and is a permutation
\* of the previous contents of the range.
C2_QuickSortSortsBelowCap ==
    (pc = "quick_returned" /\ high - low < RecursionCap) =>
        /\ IsAscending(values, low, high)
        /\ SamePermutation(values, orig, low, high)

C2_Witness ==
    /\ pc = "quick_returned"
    /\ high - low >= 2
    /\ high - low < RecursionCap
    /\ ~IsAscending(orig, low, high)
    /\ IsAscending(values, low, high)

\* C3: in quick_sort_scene, once quick_sort_animation(bars, values, 0, 14)
\* has returned, values is ascending and the bars are in ascending order of
\* height from index 0 to index 14.
C3_QuickSortSceneSorted ==
    pc = "quick_sort_scene.returned" =>
        /\ IsAscending(values, 0, DataSize - 1)
        /\ IsAscending(Heights(bars), 0, DataSize - 1)

\* C4: in merge_sort_scene and intro_sort_scene, after the final Transform
\* loop the bar at index i has the height of the (i+1)-th smallest input
\* value, so the heights are ascending from left to right.
C4_ScenesEndSorted ==
    pc \in {"merge_sort_scene.transformed", "intro_sort_scene.transformed"} =>
        /\ Len(bars) = DataSize
        /\ LET reference == sorted(orig)
           IN \A i \in 0..(DataSize - 1) : At(bars, i).val = At(reference, i)
        /\ \A i \in 0..(DataSize - 1) :
              /\ Cardinality({k \in 0..(DataSize - 1) :
                                 At(orig, k) < At(bars, i).val}) = i
        /\ IsAscending(Heights(bars), 0, DataSize - 1)

C4_Witness ==
    /\ pc = "merge_sort_scene.transformed"
    /\ ~IsAscending(orig, 0, DataSize - 1)
    /\ Heights(bars) = RangeList(DataSize)

\* C5: each of visualize_quicksort, visualize_mergesort and
\* visualize_introsort ends by transforming the bars into bars built from
\* sorted(data), which is ascending and has exactly the multiset of values
\* of the dataset originally passed in.
W1Shown == {"w1.visualize_quicksort.shown", "w1.visualize_mergesort.shown",
            "w1.visualize_introsort.shown"}

C5_Week1ShowsSorted ==
    pc \in W1Shown =>
        /\ Heights(bars) = sorted(values)
        /\ Len(bars) = Len(orig)
        /\ IsAscending(Heights(bars), 0, DataSize - 1)
        /\ SamePermutation(Heights(bars), orig, 0, DataSize - 1)

C5_Witness ==
    /\ pc = "w1.visualize_quicksort.shown"
    /\ values # orig
    /\ ~IsAscending(values, 0, DataSize - 1)
    /\ Heights(bars) = RangeList(DataSize)

Printed(message) == \E k \in 1..Len(stdout) : stdout[k] = message

IsPrefix(s, t) == Len(s) <= Len(t) /\ \A k \in 1..Len(s) : s[k] = t[k]

MainPcs == {"main", "main.chdir", "main.print", "main.returned",
            "main.raised.makedirs", "main.raised.render"}
           \cup {create_pcs[k] : k \in 1..Len(create_pcs)}

diagram_paths == [k \in 1..Len(output_files) |-> diagrams_dir \o <<output_files[k]>>]

\* C8: main() renders exactly four diagrams with pairwise distinct names, in
\* the order threading_architecture, thread_synchronization,
\* thread_safety_issues, threading_performance_comparison, inside the
\* 'diagrams' directory after that directory exists, and prints
\* 'All diagrams created successfully' only after all four renders.
C8_FourDiagramsInOrder ==
    pc \in MainPcs =>
        /\ IsPrefix(written, diagram_paths)
        /\ Cardinality({diagram_paths[k] : k \in 1..Len(diagram_paths)}) = 4
        /\ written # <<>> => Kind(fs, diagrams_dir) = "dir"
        /\ \A k \in 1..Len(written) : Kind(fs, written[k]) = "file"
        /\ Printed(all_created_message) => written = diagram_paths
        /\ pc = "main.returned" =>
              written = diagram_paths /\ Printed(all_created_message)

C8_Witness ==
    /\ pc = "main.returned"
    /\ Len(written) = 4
    /\ stdout[Len(stdout)] = all_created_message

GraphPcs == {"graph", "graph.makedirs", "graph.savefig_png", "graph.savefig_pdf",
             "graph.print", "graph.finished", "graph.raised.makedirs",
             "graph.raised.savefig"}

\* C9: the graph script ensures Resources/Slides exists before any file is
\* saved, saves sorting_algorithm_comparison.png before
\* sorting_algorithm_comparison.pdf, and prints 'Graph creation completed
\* successfully!' only after both files have been saved.
C9_PngThenPdf ==
    pc \in GraphPcs =>
        /\ IsPrefix(written, <<<<"Resources", "Slides", "sorting_algorithm_comparison.png">>,
                               <<"Resources", "Slides", "sorting_algorithm_comparison.pdf">>>>)
        /\ written # <<>> => Kind(fs, slides_dir) = "dir"
        /\ \A k \in 1..Len(written) : Kind(fs, written[k]) = "file"
        /\ Printed(completed_message) => Len(written) = 2
        /\ pc = "graph.finished" => Len(written) = 2 /\ Printed(completed_message)

C9_Witness ==
    /\ pc = "graph.finished"
    /\ Len(written) = 2
    /\ stdout[Len(stdout)] = completed_message

\* C10: when os.makedirs raises in either script (the output directory does
\* not exist once the call is over), the script is in its error state, has
\* written no image file and has printed no success message, and it takes
\* no further step.
MakedirsDone == pc \notin {"main", "graph", "graph.makedirs"}

OutputDir == IF pc \in MainPcs THEN diagrams_dir ELSE slides_dir

MakedirsRaised == {"main.raised.makedirs", "graph.raised.makedirs"}

C10_StateAfterMakedirsRaised ==
    (MakedirsDone /\ Kind(fs, OutputDir) # "dir") =>
        /\ pc \in MakedirsRaised
        /\ written = <<>>
        /\ ~Printed(all_created_message)
        /\ ~Printed(completed_message)
        /\ \A k \in 1..Len(saved_messages) : ~Printed(saved_messages[k])
        /\ ~Printed("Saved PNG") /\ ~Printed("Saved PDF")

C10_MakedirsFailureStops ==
    /\ []C10_StateAfterMakedirsRaised
    /\ [][pc \notin MakedirsRaised]_vars

C10_Witness ==
    /\ pc \in MakedirsRaised
    /\ Kind(fs, OutputDir) # "dir"
    /\ written = <<>>

RunsShuffled == {"runs.quick_sort_scene.shuffled", "runs.merge_sort_scene.shuffled",
                 "runs.intro_sort_scene.shuffled"}

\* C6 (as stated): any two executions of SortingAlgorithm.construct produce
\* the same initial bar arrays in quick_sort_scene, merge_sort_scene and
\* intro_sort_scene.
C6_SameInitialArrays == pc \in RunsShuffled => values = values2

IsPermutationOfData(s) ==
    /\ Len(s) = 15
    /\ \A v \in 1..15 : Count(s, 0, Len(s) - 1, v) = 1

\* C6 (amended): in any two executions the initial array of each of the
\* three scenes is a permutation of 1..15, so the executions show the same
\* fifteen bar heights; their order is whatever random.shuffle drew.
C6_SameHeightsAnyOrder ==
    pc \in RunsShuffled =>
        /\ IsPermutationOfData(values)
        /\ IsPermutationOfData(values2)
        /\ SamePermutation(values, values2, 0, 14)

C6_Witness ==
    /\ pc \in RunsShuffled
    /\ values # values2
    /\ At(values, 14) # At(values2, 14)

\* C7: because of np.random.seed(42), every execution of
\* algorithm_comparison_scene produces the same shuffled data_quicksort and
\* therefore the same data_mergesort and data_introsort.
C7_SeedMakesDataReproducible ==
    (pc = "runs.algorithm_comparison_scene.shuffled" /\ np_seed = NumpySeed) =>
        /\ data_quicksort = values2
        /\ data_mergesort = values2
        /\ data_introsort = values2

\* C11: main() has no recovery and no retry: when rendering the k-th diagram
\* raises, the error propagates out of main(), so that nothing runs after it:
\* diagrams k+1..4 are not rendered, the final success message is not
\* printed, and the files of diagrams 1..k-1 stay in place.
C11_StateAfterRenderRaised ==
    pc = "main.raised.render" =>
        /\ Len(written) < Len(diagram_paths)
        /\ IsPrefix(written, diagram_paths)
        /\ \A k \in 1..Len(written) : Kind(fs, written[k]) = "file"
        /\ \A k \in (Len(written) + 1)..Len(saved_messages) :
               ~Printed(saved_messages[k])
        /\ ~Printed(all_created_message)

C11_RenderFailureStops ==
    /\ []C11_StateAfterRenderRaised
    /\ [][/\ pc # "main.raised.render"
          /\ \A k \in 1..Len(create_pcs) :
                (pc = create_pcs[k] /\ written' = written)
                    => pc' = "main.raised.render"]_vars

C11_Witness ==
    /\ pc = "main.raised.render"
    /\ Len(written) = 2
    /\ Kind(fs, diagram_paths[1]) = "file"
    /\ Kind(fs, diagram_paths[2]) = "file"

\* the positions of SortingAlgorithm.construct, grouped by the sub-scene that
\* is running, the call of the sub-scene first
resources_scene_pcs ==
    << <<"intro_scene">>,
       <<"quick_sort_scene", "quick_sort_scene.animate", "quick_sort_scene.returned">>,
       <<"merge_sort_scene", "merge_sort_scene.animate",
         "merge_sort_scene.transform", "merge_sort_scene.transformed">>,
       <<"intro_sort_scene", "intro_sort_scene.animate",
         "intro_sort_scene.transform", "intro_sort_scene.transformed">>,
       <<"performance_comparison_scene">>,
       <<"conclusion_scene">>,
       <<"constructed">> >>

\* the same for SortingAlgorithmsForFinance.construct; the three visualize_*
\* helpers run inside algorithm_comparison_scene
week1_scene_pcs ==
    << <<"w1.intro_scene">>,
       <<"w1.algorithm_comparison_scene",
         "w1.visualize_quicksort", "w1.visualize_quicksort.returned",
         "w1.visualize_quicksort.shown",
         "w1.visualize_mergesort", "w1.visualize_mergesort.dividers",
         "w1.visualize_mergesort.shown",
         "w1.visualize_introsort", "w1.visualize_introsort.switching",
         "w1.visualize_introsort.shown">>,
       <<"w1.std_sort_internals_scene">>,
       <<"w1.financial_data_scene">>,
       <<"w1.conclusion_scene">>,
       <<"w1.constructed">> >>

InScene(t, k, p) == \E n \in 1..Len(t[k]) : t[k][n] = p

Running(t, p) == \E k \in 1..Len(t) : InScene(t, k, p)

SceneIndex(t, p) == CHOOSE k \in 1..Len(t) : InScene(t, k, p)

QuickPcs == {"qs.call", "qs.loop", "qs.placed", "qs.return", "qs.returned",
             "w1qs.call", "w1qs.loop", "w1qs.placed", "w1qs.return",
             "w1qs.returned"}

Placed == {"qs.placed", "w1qs.placed"}

\* C13: the partition step of both quick_sort_animation variants is a correct
\* Lomuto partition: right after the pivot swap, with p = i + 1, p lies in
\* low..high, values[p] is the value values[high] had on entry, every
\* values[k] with low <= k < p is <= the pivot, every values[k] with
\* p < k <= high is > the pivot, and values[low..high] is a permutation of
\* its contents on entry.
C13_LomutoPartition ==
    pc \in Placed =>
        LET p == loop.i + 1
            pivot == At(loop.entry, loop.hi)
        IN /\ loop.lo < loop.hi
           /\ loop.lo <= p /\ p <= loop.hi
           /\ At(values, p) = pivot
           /\ \A k \in loop.lo..(p - 1) : At(values, k) <= pivot
           /\ \A k \in (p + 1)..loop.hi : At(values, k) > pivot
           /\ SamePermutation(values, loop.entry, loop.lo, loop.hi)

C13_Witness ==
    /\ pc = "qs.placed"
    /\ stack # <<>>
    /\ loop.lo < loop.i + 1 /\ loop.i + 1 < loop.hi
    /\ values # loop.entry

IsDone(bar) == bar.color \in {"GREEN", "GREEN_E"}

DoneBars == {k \in 0..(Len(bars) - 1) : IsDone(At(bars, k))}

SceneCall == Len(orig) = DataSize /\ low = 0 /\ high = DataSize - 1

C14_OnePassOnSceneData ==
    (pc \in QuickPcs /\ SceneCall) =>
        /\ stack = <<>>
        /\ loop.lo = low /\ loop.hi = high
        /\ Cardinality(DoneBars) <= 1
        /\ pc \in Placed \cup {"qs.return", "w1qs.return", "qs.returned",
                                "w1qs.returned"}
              => Cardinality(DoneBars) = 1

\* C14: the Resources quick_sort_animation makes its recursive calls exactly
\* when high - low < 10, the Week1 one exactly when right - (i+1) < 3 and
\* (i+1) - left < 3; so on a 15-element list with the range 0..14 the
\* top-level call of either variant runs one partition pass and makes no
\* recursive call.
C14_RecursionCap ==
    /\ []C14_OnePassOnSceneData
    /\ [][/\ pc = "qs.placed" =>
               ((pc' = "qs.call" /\ Len(stack') = Len(stack) + 1)
                   <=> loop.hi - loop.lo < 10)
          /\ pc = "w1qs.placed" =>
               ((pc' = "w1qs.call" /\ Len(stack') = Len(stack) + 1)
                   <=> (loop.hi - (loop.i + 1) < 3 /\ (loop.i + 1) - loop.lo < 3))
          /\ (pc \in Placed /\ pc' \notin {"qs.call", "w1qs.call"})
               => (pc' \in {"qs.return", "w1qs.return"} /\ stack' = stack)]_vars

C14_Witness ==
    /\ pc = "w1qs.returned"
    /\ SceneCall
    /\ Cardinality(DoneBars) = 1
    /\ ~IsAscending(values, low, high)

Unchanged(s, t, a, b) == \A n \in 0..(Len(s) - 1) : (n < a \/ n > b) => At(s, n) = At(t, n)

\* the running call is returning
Returning == {"qs.return", "w1qs.return", "ms.return"}

C15_FrameOfReturningCall ==
    /\ pc \in Returning =>
           /\ Len(values) = Len(loop.entry)
           /\ Unchanged(values, loop.entry, loop.lo, loop.hi)
    /\ pc \in {"qs.returned", "w1qs.returned", "ms.returned"} =>
           /\ Len(values) = Len(orig)
           /\ Unchanged(values, orig, low, high)
    /\ pc = "ms.merged" =>
           /\ Unchanged(values, loop.merge_entry, loop.lo, loop.hi)
           /\ loop.k = loop.hi + 1
    /\ pc = "ms.merge_loops" =>
           /\ loop.lo <= loop.k /\ loop.k <= loop.hi + 1
           /\ loop.k = loop.lo + loop.i + loop.j

\* C15: the sorting routines write only inside their range: when a call of
\* quick_sort_animation (both variants), merge_sort_animation or
\* merge_animation returns, nested calls included, every element of values
\* outside the range of the call is as it was when the call was made, and
\* merge_animation writes the indices start, start+1, .., end one after the
\* other, each once, so that k ends at end + 1.
C15_WritesInsideRange ==
    /\ []C15_FrameOfReturningCall
    /\ [][pc = "ms.merge_loops" /\ pc' = "ms.merge_loops" =>
              loop'.k = loop.k + 1
              /\ \A n \in 0..(Len(values) - 1) :
                     n = loop.k \/ At(values', n) = At(values, n)]_vars
    /\ [][(pc \in {"qs.call", "qs.loop", "qs.placed", "w1qs.call", "w1qs.loop",
                   "w1qs.placed", "ms.call", "ms.merge_animation",
                   "ms.merge_loops", "ms.merged"}) =>
              Unchanged(values', values, loop.lo, loop.hi)]_vars

C15_Witness ==
    /\ pc = "ms.merged"
    /\ stack # <<>>
    /\ loop.lo > 0 /\ loop.hi < Len(values) - 1
    /\ values # loop.merge_entry
    /\ values # orig

\* C16: in both quick_sort_animation variants the bars stay in step with the
\* values: after every swap step (the value swap with its conditional bar
\* swap) bars[k] is, for every index k, the bar that was created for the
\* value now stored in values[k], so the bar list and the value list have
\* undergone the same permutation.
C16_BarsFollowValues ==
    pc \in QuickPcs =>
        /\ Len(bars) = Len(values)
        /\ \A k \in 0..(Len(values) - 1) :
              /\ At(bars, k).val = At(values, k)
              /\ At(orig, At(bars, k).id) = At(values, k)
        /\ \A k, n \in 0..(Len(values) - 1) :
              At(bars, k).id = At(bars, n).id => k = n

C16_Witness ==
    /\ pc = "qs.loop"
    /\ loop.i >= loop.lo
    /\ loop.i + 1 < loop.j
    /\ At(bars, loop.i).id # loop.i
    /\ At(values, loop.i) # At(orig, loop.i)
    /\ stack # <<>>

YellowBars == {k \in 0..(Len(bars) - 1) : At(bars, k).color = "YELLOW"}

\* the value index k holds once values[low..high] is fully sorted
FinalValue(k) == At(sorted(Slice(orig, low, high + 1)), k - low)

C17_DoneBarsArePlaced ==
    pc \in QuickPcs =>
        /\ \A k \in DoneBars :
              /\ low <= k /\ k <= high
              /\ At(values, k) = FinalValue(k)
        /\ pc \in Placed =>
              /\ loop.i + 1 \in DoneBars
              /\ At(bars, loop.i + 1).color =
                    (IF pc = "qs.placed" THEN "GREEN" ELSE "GREEN_E")
        /\ Cardinality(YellowBars) <= 1
        /\ pc \in {"qs.placed", "qs.return", "qs.returned", "w1qs.placed",
                    "w1qs.return", "w1qs.returned"} => YellowBars = {}

\* C17: a bar marked as placed is really placed: when quick_sort_animation
\* colours the bar at i+1 as done (GREEN, resp. GREEN_E in the Week1
\* variant), values[i+1] is the value that index holds in the fully sorted
\* range, and neither values[i+1] nor bars[i+1] is written again in the rest
\* of the top-level call; at most one bar is YELLOW at any time, and none is
\* YELLOW when a call returns.
C17_PlacedStaysPlaced ==
    /\ []C17_DoneBarsArePlaced
    /\ [][(pc \in QuickPcs) =>
              \A k \in DoneBars :
                  At(values', k) = At(values, k) /\ At(bars', k) = At(bars, k)]_vars

C17_Witness ==
    /\ pc = "qs.loop"
    /\ stack # <<>>
    /\ Cardinality(DoneBars) >= 2
    /\ Cardinality(YellowBars) = 1
    /\ values # orig

Calls == {"qs.call", "w1qs.call", "ms.call"}

Returned == {"qs.returned", "w1qs.returned", "ms.returned"}

C18_RecursiveCallsShrink ==
    (pc \in Calls /\ stack # <<>>) =>
        LET caller == Head(stack).locals
            first == Head(stack).at = "first"
        IN /\ loop.hi - loop.lo < caller.hi - caller.lo
           /\ caller.lo < caller.hi
           /\ pc \in {"qs.call", "w1qs.call"} =>
                 /\ caller.lo - 1 <= caller.i /\ caller.i < caller.hi
                 /\ first => loop.lo = caller.lo /\ loop.hi = caller.i
                 /\ ~first => loop.lo = caller.i + 2 /\ loop.hi = caller.hi
           /\ pc = "ms.call" =>
                 /\ caller.lo <= caller.mid /\ caller.mid < caller.hi
                 /\ first => loop.lo = caller.lo /\ loop.hi = caller.mid
                 /\ ~first => loop.lo = caller.mid + 1 /\ loop.hi = caller.hi

\* C18: every call of quick_sort_animation (both variants) and of
\* merge_sort_animation terminates: the top-level call eventually returns,
\* each recursive call is made on a strictly smaller index range than its
\* caller ([low..i] and [i+2..high] with low-1 <= i < high, resp.
\* [start..mid] and [mid+1..end] with start <= mid < end), and a call with
\* low >= high returns without recursing and without writing.
C18_CallsTerminate ==
    /\ <>(pc \in Returned)
    /\ []C18_RecursiveCallsShrink
    /\ [][(pc \in Calls /\ loop.lo >= loop.hi) =>
              (/\ pc' \in Returning
               /\ UNCHANGED <<values, bars, loop, stack>>)]_vars

C18_Witness ==
    /\ pc = "ms.returned"
    /\ high - low = MaxLen - 1
    /\ values # orig

\* C19: the merge sort is stable: merge_animation takes from the left half
\* whenever L[i] <= R[j], so after merge_sort_animation(.., start, end) the
\* range holds the elements it held before, ascending by key, and two
\* elements with equal keys are in the relative order they had before the
\* call.
C19_MergeSortStable ==
    pc = "merge_returned.tagged" =>
        /\ \A a \in low..high :
              \E b \in low..high : At(orig, b) = At(values, a)
        /\ \A a \in low..high : Tag(At(orig, a)) = a + 1
        /\ \A a, b \in low..high :
              a < b =>
                /\ Key(At(values, a)) <= Key(At(values, b))
                /\ Key(At(values, a)) = Key(At(values, b))
                      => Tag(At(values, a)) < Tag(At(values, b))

C19_Witness ==
    /\ pc = "merge_returned.tagged"
    /\ values # orig
    /\ \E a, b \in low..high :
          /\ b > a + 1
          /\ Key(At(orig, a)) = Key(At(orig, b))
          /\ Key(At(orig, a + 1)) < Key(At(orig, a))

MergeSortScenePcs == {"merge_sort_scene.animate", "merge_sort_scene.transform",
                      "merge_sort_scene.transformed"}

C20_ValuesKeptInScene ==
    /\ pc \in MergeSortScenePcs =>
           /\ values = orig
           /\ Len(values) = DataSize
    /\ pc \in {"merge_sort_scene.transform", "merge_sort_scene.transformed"} =>
           /\ sorted_values = sorted(values)
           /\ Len(temp_bars) = Len(bars)
    /\ pc = "merge_sort_scene.transformed" =>
           \A i \in 0..(Len(sorted_values) - 1) :
               /\ At(bars, i).val = At(sorted_values, i)
               /\ At(bars, i).id = i

\* C20: merge_sort_scene sorts a copy: the list values made by the shuffle
\* is not modified from its creation to the end of the scene, only
\* sorted_values, the copy, is sorted by merge_sort_animation, and the final
\* Transform loop gives the original bar at index i the height
\* sorted_values[i].
C20_MergeSortSceneSortsCopy ==
    /\ []C20_ValuesKeptInScene
    /\ [][(pc \in MergeSortScenePcs /\ pc' \in MergeSortScenePcs) =>
              values' = values]_vars

C20_Witness ==
    /\ pc = "merge_sort_scene.transformed"
    /\ sorted_values # values
    /\ ~IsAscending(values, 0, DataSize - 1)
    /\ IsAscending(sorted_values, 0, DataSize - 1)
    /\ Heights(bars) = sorted_values

\* the positions of algorithm_comparison_scene after the three lists exist
AfterCopies == {"w1.visualize_quicksort", "w1.visualize_quicksort.returned",
                "w1.visualize_quicksort.shown",
                "w1.visualize_mergesort", "w1.visualize_mergesort.dividers",
                "w1.visualize_mergesort.shown",
                "w1.visualize_introsort", "w1.visualize_introsort.switching",
                "w1.visualize_introsort.shown"}

C21_CopiesKeepShuffledOrder ==
    /\ pc \in AfterCopies =>
           /\ data_mergesort = data_introsort
           /\ IsPermutationOfData(data_mergesort)
    /\ pc = "w1.visualize_quicksort" =>
           data_quicksort = data_mergesort
    /\ pc \in {"w1.visualize_quicksort.returned", "w1.visualize_quicksort.shown"} =>
           /\ data_mergesort = orig
           /\ data_introsort = orig
           /\ values = data_quicksort
    /\ pc \in {"w1.visualize_mergesort.dividers", "w1.visualize_mergesort.shown"} =>
           /\ values = data_mergesort
           /\ orig = data_mergesort
    /\ pc \in {"w1.visualize_introsort.switching", "w1.visualize_introsort.shown"} =>
           /\ values = data_introsort
           /\ orig = data_introsort

\* C21: in algorithm_comparison_scene data_mergesort and data_introsort are
\* independent copies of data_quicksort: no step after their creation
\* changes them, in particular not the in-place reordering of
\* data_quicksort by visualize_quicksort, so when that call has returned
\* both still equal the order the list had before it, and the lists
\* visualize_mergesort and visualize_introsort receive are that order.
C21_IndependentCopies ==
    /\ []C21_CopiesKeepShuffledOrder
    /\ [][(pc \in AfterCopies) =>
              (/\ data_mergesort' = data_mergesort
               /\ data_introsort' = data_introsort)]_vars

C21_Witness ==
    /\ pc = "w1.visualize_introsort.switching"
    /\ data_quicksort # data_introsort
    /\ values = data_introsort
    /\ ~IsAscending(values, 0, DataSize - 1)

\* a sub-scene of SortingAlgorithm has just returned: construct is at the
\* call of the next one, or at its own end
SubSceneReturned == {"quick_sort_scene", "merge_sort_scene", "intro_sort_scene",
                     "performance_comparison_scene", "conclusion_scene",
                     "constructed"}

\* C22: each sub-scene of SortingAlgorithm leaves the scene empty: when
\* intro_scene, quick_sort_scene, merge_sort_scene, intro_sort_scene,
\* performance_comparison_scene or conclusion_scene returns, every mobject
\* put on the scene during it, by an animation or implicitly by self.play
\* (such as the elements of temp_bars in merge_sort_scene), has been faded
\* out, so nothing of one sub-scene is displayed during the next.
C22_SubScenesLeaveSceneEmpty ==
    pc \in SubSceneReturned => mobjects = {}

====
